---- MODULE Spec2Model ----
(***************************************************************************)
(* Model of app/models.py: the SQLModel schema of the marketplace.         *)
(*                                                                         *)
(* Strings are sequences of one-character strings, Optional[T] is a        *)
(* sequence of length at most one (<<>> is None), Decimal is the triple    *)
(* of Decimal.as_tuple(): sign, digit tuple, exponent.                     *)
(*                                                                         *)
(* A class is modelled by its schema, the record of its Field              *)
(* declarations; Validate gives the set of (field, constraint) errors of   *)
(* the keyword arguments against a schema, and a construction succeeds     *)
(* exactly when that set is empty.  A table (table=True) is a set of rows; *)
(* an insert or update is refused when it would break a column declared    *)
(* unique=True or foreign_key.                                             *)
(***************************************************************************)
EXTENDS Integers, Sequences, FiniteSets, TLC

VARIABLES users, addresses, seller_profiles, categories, products, cart_items,
          orders, order_items, deliveries, product_reviews, req, outcome

vars == <<users, addresses, seller_profiles, categories, products, cart_items,
          orders, order_items, deliveries, product_reviews, req, outcome>>

tables == <<users, addresses, seller_profiles, categories, products, cart_items,
            orders, order_items, deliveries, product_reviews>>

----------------------------------------------------------------------------
(* Strings, optionals, errors *)

Rep(c, n) == [i \in 1..n |-> c]

None == <<>>

Some(v) == <<v>>

IsNone(o) == Len(o) = 0

Err(f, c) == [field |-> f, constraint |-> c]

NoInput == [shape |-> "none"]

Idle == [status |-> "idle", errors |-> {}]

Ok == [status |-> "ok", errors |-> {}]

Rejected(errs) == [status |-> "error", errors |-> errs]

----------------------------------------------------------------------------
(* Enumerations *)

UserRole == {"buyer", "seller", "admin"}

OrderStatus == {"pending", "confirmed", "processing", "shipped", "delivered",
                "cancelled", "returned"}

DeliveryStatus == {"pending", "picked_up", "in_transit", "out_for_delivery",
                   "delivered", "failed", "returned"}

----------------------------------------------------------------------------
(* The email pattern ^[a-zA-Z0-9_.+-]+@[a-zA-Z0-9-]+\.[a-zA-Z0-9-.]+$       *)

Lower == {"a","b","c","d","e","f","g","h","i","j","k","l","m",
          "n","o","p","q","r","s","t","u","v","w","x","y","z"}

Upper == {"A","B","C","D","E","F","G","H","I","J","K","L","M",
          "N","O","P","Q","R","S","T","U","V","W","X","Y","Z"}

Digit == {"0","1","2","3","4","5","6","7","8","9"}

AlNum == Lower \cup Upper \cup Digit

LocalChars == AlNum \cup {"_", ".", "+", "-"}

DomainChars == AlNum \cup {"-"}

TldChars == AlNum \cup {"-", "."}

(* The matcher reads a + of a character class as far as the class goes:
   Scan gives the first position at or after from whose character is not in
   the class (Len(s) + 1 when the class runs to the end). *)
Scan(s, from, class) ==
    LET stops == {i \in from..Len(s) : s[i] \notin class}
    IN  IF stops = {} THEN Len(s) + 1
        ELSE CHOOSE i \in stops : \A j \in stops : i <= j

EmailRegexNoLastPart(s) ==
    LET at  == Scan(s, 1, LocalChars)
        dot == Scan(s, at + 1, DomainChars)
    IN  /\ 1 < at /\ at <= Len(s) /\ s[at] = "@"
        /\ at + 1 < dot
        /\ \/ dot = Len(s) + 1
           \/ /\ s[dot] = "."
              /\ dot < Len(s)
              /\ Scan(s, dot + 1, TldChars) = Len(s) + 1

(* ^local+ @ domain+ \. last+ $ : no class holds the character that must
   follow it, so each + ends where its class ends. *)
EmailRegex(s) ==
    LET at  == Scan(s, 1, LocalChars)
        dot == Scan(s, at + 1, DomainChars)
    IN  /\ 1 < at /\ at <= Len(s) /\ s[at] = "@"
        /\ at + 1 < dot /\ dot <= Len(s) /\ s[dot] = "."
        /\ dot < Len(s)
        /\ Scan(s, dot + 1, TldChars) = Len(s) + 1

----------------------------------------------------------------------------
(* Decimal: [sign, digits, exp] as Decimal.as_tuple() gives them *)

Dec(sign, digits, exp) == [sign |-> sign, digits |-> digits, exp |-> exp]

DecZero1 == Dec(0, <<0>>, -1)

DecZero2 == Dec(0, <<0>>, -2)

DigitValue(c) ==
    CASE c = "0" -> 0 [] c = "1" -> 1 [] c = "2" -> 2 [] c = "3" -> 3
      [] c = "4" -> 4 [] c = "5" -> 5 [] c = "6" -> 6 [] c = "7" -> 7
      [] c = "8" -> 8 [] c = "9" -> 9

DigitChar(d) ==
    CASE d = 0 -> "0" [] d = 1 -> "1" [] d = 2 -> "2" [] d = 3 -> "3"
      [] d = 4 -> "4" [] d = 5 -> "5" [] d = 6 -> "6" [] d = 7 -> "7"
      [] d = 8 -> "8" [] d = 9 -> "9"

RECURSIVE StripZeros(_)
StripZeros(ds) ==
    IF Len(ds) > 1 /\ ds[1] = 0 THEN StripZeros(Tail(ds)) ELSE ds

(* Decimal("<text>") for a text [-]digits[.digits]: the coefficient is the
   digits without the point and without leading zeros, the exponent is minus
   the number of digits after the point. *)
DecimalFromStr(s) ==
    LET neg    == Len(s) > 0 /\ s[1] = "-"
        body   == IF neg THEN Tail(s) ELSE s
        dots   == {i \in 1..Len(body) : body[i] = "."}
        places == IF dots = {} THEN 0
                  ELSE Len(body) - (CHOOSE i \in dots : TRUE)
        coeff  == SelectSeq(body, LAMBDA c : c # ".")
        digits == [i \in 1..Len(coeff) |-> DigitValue(coeff[i])]
    IN  Dec(IF neg THEN 1 ELSE 0, StripZeros(digits), -places)

(* str(d) for a Decimal with exponent <= 0 (plain notation) *)
DecimalToStr(d) ==
    LET n     == Len(d.digits)
        k     == -d.exp
        chars == [i \in 1..n |-> DigitChar(d.digits[i])]
        whole == IF n > k THEN SubSeq(chars, 1, n - k) ELSE <<"0">>
        frac  == IF n > k THEN SubSeq(chars, n - k + 1, n)
                 ELSE Rep("0", k - n) \o chars
    IN  (IF d.sign = 1 THEN <<"-">> ELSE <<>>) \o whole
        \o (IF k > 0 THEN <<".">> \o frac ELSE <<>>)

(* max_digits taken as the limit on the whole digits alone *)
DecimalErrWholeDigitsOnly(f, d, max_digits, decimal_places) ==
    LET n        == Len(d.digits)
        digits   == IF d.exp >= 0 THEN n + d.exp
                    ELSE IF -d.exp > n THEN -d.exp ELSE n
        decimals == IF d.exp >= 0 THEN 0 ELSE -d.exp
        whole    == digits - decimals
    IN  IF whole > max_digits THEN {Err(f, "max_digits")}
        ELSE IF decimals > decimal_places THEN {Err(f, "decimal_places")}
        ELSE {}

(* max_digits / decimal_places on a Decimal field: the number of digits, of
   decimals and of whole digits of the value, each against its limit; the
   first limit broken is the one reported. *)
DecimalErr(f, d, max_digits, decimal_places) ==
    LET n        == Len(d.digits)
        digits   == IF d.exp >= 0 THEN n + d.exp
                    ELSE IF -d.exp > n THEN -d.exp ELSE n
        decimals == IF d.exp >= 0 THEN 0 ELSE -d.exp
        whole    == digits - decimals
    IN  IF digits > max_digits THEN {Err(f, "max_digits")}
        ELSE IF decimals > decimal_places THEN {Err(f, "decimal_places")}
        ELSE IF whole > max_digits - decimal_places
             THEN {Err(f, "whole_digits")}
        ELSE {}

----------------------------------------------------------------------------
(* Field declarations.  F(type, opts) is one annotated field: its type and
   the keyword arguments of its Field(...). *)

F(type, opts) == [type |-> type, opts |-> opts]

NoOpts == [plain |-> TRUE]

Has(fd, k) == k \in DOMAIN fd.opts

IsOptional(t) == t \in {"Optional[int]", "Optional[str]", "Optional[Decimal]",
                        "Optional[datetime]", "Optional[bool]",
                        "Optional[Dict[str, Any]]", "Optional[List[str]]"}

Base(t) ==
    CASE t = "Optional[int]"            -> "int"
      [] t = "Optional[str]"            -> "str"
      [] t = "Optional[Decimal]"        -> "Decimal"
      [] t = "Optional[datetime]"       -> "datetime"
      [] t = "Optional[bool]"           -> "bool"
      [] t = "Optional[Dict[str, Any]]" -> "Dict[str, Any]"
      [] t = "Optional[List[str]]"      -> "List[str]"
      [] OTHER                          -> t

EmailPattern == "^[a-zA-Z0-9_.+-]+@[a-zA-Z0-9-]+\\.[a-zA-Z0-9-.]+$"

RegexMatch(pattern, s) == pattern = EmailPattern /\ EmailRegex(s)

(* datetime.utcnow: the instant of construction, one opaque value *)
Utcnow == <<"utcnow">>

EnumMembers(t) ==
    CASE t = "UserRole"       -> UserRole
      [] t = "OrderStatus"    -> OrderStatus
      [] t = "DeliveryStatus" -> DeliveryStatus

IsEnum(t) == t \in {"UserRole", "OrderStatus", "DeliveryStatus"}

(* A field without default and without default_factory must be given. *)
Required(fd) == ~Has(fd, "default") /\ ~Has(fd, "default_factory")

Default(fd) == IF Has(fd, "default") THEN fd.opts.default ELSE Utcnow

(* The error of value v (not None) for field f declared fd: the first
   constraint of the declaration that v breaks, if any. *)
ValueErr(f, fd, v) ==
    LET t == Base(fd.type)
    IN  IF t = "str" THEN
            IF Has(fd, "min_length") /\ Len(v) < fd.opts.min_length
                THEN {Err(f, "min_length")}
            ELSE IF Has(fd, "max_length") /\ Len(v) > fd.opts.max_length
                THEN {Err(f, "max_length")}
            ELSE IF Has(fd, "regex") /\ ~RegexMatch(fd.opts.regex, v)
                THEN {Err(f, "regex")}
            ELSE {}
        ELSE IF t = "int" THEN
            IF Has(fd, "ge") /\ v < fd.opts.ge THEN {Err(f, "ge")}
            ELSE IF Has(fd, "le") /\ v > fd.opts.le THEN {Err(f, "le")}
            ELSE {}
        ELSE IF t = "Decimal" THEN
            IF Has(fd, "max_digits")
                THEN DecimalErr(f, v, fd.opts.max_digits, fd.opts.decimal_places)
            ELSE {}
        ELSE IF IsEnum(t) THEN
            IF v \in EnumMembers(t) THEN {} ELSE {Err(f, "enum")}
        ELSE {}

(* An Optional field takes None (<<>>) or <<value>>. *)
FieldErr(f, fd, v) ==
    IF IsOptional(fd.type)
    THEN IF IsNone(v) THEN {} ELSE ValueErr(f, fd, v[1])
    ELSE ValueErr(f, fd, v)

(* Validation that reports the required fields left out and checks no
   value *)
ValidatePresenceOnly(schema, kw) ==
    {Err(f, "missing") : f \in {g \in DOMAIN schema :
                                  g \notin DOMAIN kw /\ Required(schema[g])}}

(* Validation of keyword arguments kw against a class: every declared field
   is checked when given, reported missing when required and not given;
   arguments the class does not declare are ignored. *)
Validate(schema, kw) ==
    UNION {IF f \in DOMAIN kw THEN FieldErr(f, schema[f], kw[f])
           ELSE IF Required(schema[f]) THEN {Err(f, "missing")}
           ELSE {} : f \in DOMAIN schema}

(* The instance built from valid keyword arguments: each declared field
   holds the value given, or its default. *)
Construct(schema, kw) ==
    [f \in DOMAIN schema |->
        IF f \in DOMAIN kw THEN kw[f] ELSE Default(schema[f])]

----------------------------------------------------------------------------
(* Persistent models (table=True) *)

(* User with email declared without unique=True *)
UserSchemaEmailNotUnique ==
    [id |-> F("Optional[int]", [default |-> None, primary_key |-> TRUE]),
     email |-> F("str", [max_length |-> 255, regex |-> EmailPattern]),
     password_hash |-> F("str", [max_length |-> 255]),
     full_name |-> F("str", [max_length |-> 100]),
     phone |-> F("Optional[str]", [default |-> None, max_length |-> 20]),
     role |-> F("UserRole", [default |-> "buyer"]),
     is_active |-> F("bool", [default |-> TRUE]),
     created_at |-> F("datetime", [default_factory |-> "utcnow"]),
     updated_at |-> F("datetime", [default_factory |-> "utcnow"])]

UserSchema ==
    [id |-> F("Optional[int]", [default |-> None, primary_key |-> TRUE]),
     email |-> F("str", [unique |-> TRUE, max_length |-> 255,
                         regex |-> EmailPattern]),
     password_hash |-> F("str", [max_length |-> 255]),
     full_name |-> F("str", [max_length |-> 100]),
     phone |-> F("Optional[str]", [default |-> None, max_length |-> 20]),
     role |-> F("UserRole", [default |-> "buyer"]),
     is_active |-> F("bool", [default |-> TRUE]),
     created_at |-> F("datetime", [default_factory |-> "utcnow"]),
     updated_at |-> F("datetime", [default_factory |-> "utcnow"])]

(* Address with country declared under the name country_name *)
AddressSchemaRenamedCountry ==
    [id |-> F("Optional[int]", [default |-> None, primary_key |-> TRUE]),
     user_id |-> F("int", [foreign_key |-> "users"]),
     label |-> F("str", [max_length |-> 50]),
     full_address |-> F("str", [max_length |-> 500]),
     city |-> F("str", [max_length |-> 100]),
     state |-> F("str", [max_length |-> 100]),
     postal_code |-> F("str", [max_length |-> 20]),
     country_name |-> F("str", [max_length |-> 100,
                           default |-> <<"I","n","d","o","n","e","s","i","a">>]),
     is_default |-> F("bool", [default |-> FALSE]),
     created_at |-> F("datetime", [default_factory |-> "utcnow"])]

AddressSchema ==
    [id |-> F("Optional[int]", [default |-> None, primary_key |-> TRUE]),
     user_id |-> F("int", [foreign_key |-> "users"]),
     label |-> F("str", [max_length |-> 50]),
     full_address |-> F("str", [max_length |-> 500]),
     city |-> F("str", [max_length |-> 100]),
     state |-> F("str", [max_length |-> 100]),
     postal_code |-> F("str", [max_length |-> 20]),
     country |-> F("str", [max_length |-> 100,
                           default |-> <<"I","n","d","o","n","e","s","i","a">>]),
     is_default |-> F("bool", [default |-> FALSE]),
     created_at |-> F("datetime", [default_factory |-> "utcnow"])]

SellerProfileSchema ==
    [id |-> F("Optional[int]", [default |-> None, primary_key |-> TRUE]),
     user_id |-> F("int", [foreign_key |-> "users", unique |-> TRUE]),
     store_name |-> F("str", [max_length |-> 200]),
     store_description |-> F("Optional[str]", [default |-> None,
                                               max_length |-> 1000]),
     store_logo_url |-> F("Optional[str]", [default |-> None,
                                            max_length |-> 500]),
     business_license |-> F("Optional[str]", [default |-> None,
                                              max_length |-> 100]),
     is_verified |-> F("bool", [default |-> FALSE]),
     rating |-> F("Decimal", [default |-> DecZero1, max_digits |-> 3,
                              decimal_places |-> 2]),
     total_sales |-> F("int", [default |-> 0]),
     created_at |-> F("datetime", [default_factory |-> "utcnow"])]

CategorySchema ==
    [id |-> F("Optional[int]", [default |-> None, primary_key |-> TRUE]),
     name |-> F("str", [max_length |-> 100, unique |-> TRUE]),
     description |-> F("Optional[str]", [default |-> None, max_length |-> 500]),
     parent_id |-> F("Optional[int]", [default |-> None,
                                       foreign_key |-> "categories"]),
     image_url |-> F("Optional[str]", [default |-> None, max_length |-> 500]),
     is_active |-> F("bool", [default |-> TRUE]),
     sort_order |-> F("int", [default |-> 0]),
     created_at |-> F("datetime", [default_factory |-> "utcnow"])]

ProductSchema ==
    [id |-> F("Optional[int]", [default |-> None, primary_key |-> TRUE]),
     seller_id |-> F("int", [foreign_key |-> "users"]),
     category_id |-> F("int", [foreign_key |-> "categories"]),
     name |-> F("str", [max_length |-> 200]),
     description |-> F("str", [max_length |-> 2000]),
     price |-> F("Decimal", [max_digits |-> 12, decimal_places |-> 2]),
     original_price |-> F("Optional[Decimal]", [default |-> None,
                              max_digits |-> 12, decimal_places |-> 2]),
     stock_quantity |-> F("int", [default |-> 0]),
     min_order_quantity |-> F("int", [default |-> 1]),
     weight_kg |-> F("Decimal", [max_digits |-> 8, decimal_places |-> 3]),
     dimensions |-> F("Dict[str, Any]", [default |-> {}, sa_column |-> "JSON"]),
     images |-> F("List[str]", [default |-> <<>>, sa_column |-> "JSON"]),
     specifications |-> F("Dict[str, Any]", [default |-> {},
                                             sa_column |-> "JSON"]),
     tags |-> F("List[str]", [default |-> <<>>, sa_column |-> "JSON"]),
     is_active |-> F("bool", [default |-> TRUE]),
     is_featured |-> F("bool", [default |-> FALSE]),
     rating |-> F("Decimal", [default |-> DecZero1, max_digits |-> 3,
                              decimal_places |-> 2]),
     total_reviews |-> F("int", [default |-> 0]),
     total_sold |-> F("int", [default |-> 0]),
     created_at |-> F("datetime", [default_factory |-> "utcnow"]),
     updated_at |-> F("datetime", [default_factory |-> "utcnow"])]

CartItemSchema ==
    [id |-> F("Optional[int]", [default |-> None, primary_key |-> TRUE]),
     user_id |-> F("int", [foreign_key |-> "users"]),
     product_id |-> F("int", [foreign_key |-> "products"]),
     quantity |-> F("int", [default |-> 1]),
     added_at |-> F("datetime", [default_factory |-> "utcnow"])]

OrderSchema ==
    [id |-> F("Optional[int]", [default |-> None, primary_key |-> TRUE]),
     user_id |-> F("int", [foreign_key |-> "users"]),
     shipping_address_id |-> F("int", [foreign_key |-> "addresses"]),
     order_number |-> F("str", [unique |-> TRUE, max_length |-> 50]),
     status |-> F("OrderStatus", [default |-> "pending"]),
     subtotal |-> F("Decimal", [max_digits |-> 12, decimal_places |-> 2]),
     shipping_fee |-> F("Decimal", [default |-> DecZero2, max_digits |-> 12,
                                    decimal_places |-> 2]),
     tax_amount |-> F("Decimal", [default |-> DecZero2, max_digits |-> 12,
                                  decimal_places |-> 2]),
     discount_amount |-> F("Decimal", [default |-> DecZero2, max_digits |-> 12,
                                       decimal_places |-> 2]),
     total_amount |-> F("Decimal", [max_digits |-> 12, decimal_places |-> 2]),
     payment_method |-> F("str", [max_length |-> 50]),
     payment_status |-> F("str", [default |-> <<"p","e","n","d","i","n","g">>,
                                  max_length |-> 20]),
     notes |-> F("Optional[str]", [default |-> None, max_length |-> 500]),
     created_at |-> F("datetime", [default_factory |-> "utcnow"]),
     updated_at |-> F("datetime", [default_factory |-> "utcnow"])]

OrderItemSchema ==
    [id |-> F("Optional[int]", [default |-> None, primary_key |-> TRUE]),
     order_id |-> F("int", [foreign_key |-> "orders"]),
     product_id |-> F("int", [foreign_key |-> "products"]),
     quantity |-> F("int", NoOpts),
     unit_price |-> F("Decimal", [max_digits |-> 12, decimal_places |-> 2]),
     total_price |-> F("Decimal", [max_digits |-> 12, decimal_places |-> 2]),
     seller_id |-> F("int", [foreign_key |-> "users"])]

(* Delivery with order_id declared without unique=True *)
DeliverySchemaOrderNotUnique ==
    [id |-> F("Optional[int]", [default |-> None, primary_key |-> TRUE]),
     order_id |-> F("int", [foreign_key |-> "orders"]),
     komerce_delivery_id |-> F("Optional[str]", [default |-> None,
                                                 max_length |-> 100]),
     courier_name |-> F("str", [max_length |-> 100]),
     courier_phone |-> F("Optional[str]", [default |-> None,
                                           max_length |-> 20]),
     tracking_number |-> F("Optional[str]", [default |-> None,
                                             max_length |-> 100]),
     status |-> F("DeliveryStatus", [default |-> "pending"]),
     estimated_delivery |-> F("Optional[datetime]", [default |-> None]),
     actual_delivery |-> F("Optional[datetime]", [default |-> None]),
     pickup_address |-> F("str", [max_length |-> 500]),
     delivery_address |-> F("str", [max_length |-> 500]),
     delivery_fee |-> F("Decimal", [max_digits |-> 10, decimal_places |-> 2]),
     insurance_fee |-> F("Decimal", [default |-> DecZero2, max_digits |-> 10,
                                     decimal_places |-> 2]),
     delivery_notes |-> F("Optional[str]", [default |-> None,
                                            max_length |-> 500]),
     komerce_response |-> F("Dict[str, Any]", [default |-> {},
                                               sa_column |-> "JSON"]),
     created_at |-> F("datetime", [default_factory |-> "utcnow"]),
     updated_at |-> F("datetime", [default_factory |-> "utcnow"])]

DeliverySchema ==
    [id |-> F("Optional[int]", [default |-> None, primary_key |-> TRUE]),
     order_id |-> F("int", [foreign_key |-> "orders", unique |-> TRUE]),
     komerce_delivery_id |-> F("Optional[str]", [default |-> None,
                                                 max_length |-> 100]),
     courier_name |-> F("str", [max_length |-> 100]),
     courier_phone |-> F("Optional[str]", [default |-> None,
                                           max_length |-> 20]),
     tracking_number |-> F("Optional[str]", [default |-> None,
                                             max_length |-> 100]),
     status |-> F("DeliveryStatus", [default |-> "pending"]),
     estimated_delivery |-> F("Optional[datetime]", [default |-> None]),
     actual_delivery |-> F("Optional[datetime]", [default |-> None]),
     pickup_address |-> F("str", [max_length |-> 500]),
     delivery_address |-> F("str", [max_length |-> 500]),
     delivery_fee |-> F("Decimal", [max_digits |-> 10, decimal_places |-> 2]),
     insurance_fee |-> F("Decimal", [default |-> DecZero2, max_digits |-> 10,
                                     decimal_places |-> 2]),
     delivery_notes |-> F("Optional[str]", [default |-> None,
                                            max_length |-> 500]),
     komerce_response |-> F("Dict[str, Any]", [default |-> {},
                                               sa_column |-> "JSON"]),
     created_at |-> F("datetime", [default_factory |-> "utcnow"]),
     updated_at |-> F("datetime", [default_factory |-> "utcnow"])]

ProductReviewSchema ==
    [id |-> F("Optional[int]", [default |-> None, primary_key |-> TRUE]),
     product_id |-> F("int", [foreign_key |-> "products"]),
     user_id |-> F("int", [foreign_key |-> "users"]),
     order_item_id |-> F("Optional[int]", [default |-> None,
                                           foreign_key |-> "order_items"]),
     rating |-> F("int", [ge |-> 1, le |-> 5]),
     title |-> F("Optional[str]", [default |-> None, max_length |-> 200]),
     comment |-> F("Optional[str]", [default |-> None, max_length |-> 1000]),
     images |-> F("List[str]", [default |-> <<>>, sa_column |-> "JSON"]),
     is_verified_purchase |-> F("bool", [default |-> FALSE]),
     helpful_count |-> F("int", [default |-> 0]),
     created_at |-> F("datetime", [default_factory |-> "utcnow"])]

----------------------------------------------------------------------------
(* Non-persistent schemas (table=False) *)

(* UserCreate with password declared min_length=7 *)
UserCreateSchemaShortPassword ==
    [email |-> F("str", [max_length |-> 255, regex |-> EmailPattern]),
     password |-> F("str", [min_length |-> 7, max_length |-> 100]),
     full_name |-> F("str", [max_length |-> 100]),
     phone |-> F("Optional[str]", [default |-> None, max_length |-> 20]),
     role |-> F("UserRole", [default |-> "buyer"])]

UserCreateSchema ==
    [email |-> F("str", [max_length |-> 255, regex |-> EmailPattern]),
     password |-> F("str", [min_length |-> 8, max_length |-> 100]),
     full_name |-> F("str", [max_length |-> 100]),
     phone |-> F("Optional[str]", [default |-> None, max_length |-> 20]),
     role |-> F("UserRole", [default |-> "buyer"])]

(* UserUpdate with phone declared under the name phone_number *)
UserUpdateSchemaRenamedPhone ==
    [full_name |-> F("Optional[str]", [default |-> None, max_length |-> 100]),
     phone_number |-> F("Optional[str]", [default |-> None, max_length |-> 20])]

UserUpdateSchema ==
    [full_name |-> F("Optional[str]", [default |-> None, max_length |-> 100]),
     phone |-> F("Optional[str]", [default |-> None, max_length |-> 20])]

AddressCreateSchema ==
    [label |-> F("str", [max_length |-> 50]),
     full_address |-> F("str", [max_length |-> 500]),
     city |-> F("str", [max_length |-> 100]),
     state |-> F("str", [max_length |-> 100]),
     postal_code |-> F("str", [max_length |-> 20]),
     country |-> F("str", [max_length |-> 100,
                           default |-> <<"I","n","d","o","n","e","s","i","a">>]),
     is_default |-> F("bool", [default |-> FALSE])]

SellerProfileCreateSchema ==
    [store_name |-> F("str", [max_length |-> 200]),
     store_description |-> F("Optional[str]", [default |-> None,
                                               max_length |-> 1000]),
     store_logo_url |-> F("Optional[str]", [default |-> None,
                                            max_length |-> 500]),
     business_license |-> F("Optional[str]", [default |-> None,
                                              max_length |-> 100])]

ProductCreateSchema ==
    [category_id |-> F("int", NoOpts),
     name |-> F("str", [max_length |-> 200]),
     description |-> F("str", [max_length |-> 2000]),
     price |-> F("Decimal", [max_digits |-> 12, decimal_places |-> 2]),
     original_price |-> F("Optional[Decimal]", [default |-> None,
                              max_digits |-> 12, decimal_places |-> 2]),
     stock_quantity |-> F("int", [default |-> 0]),
     min_order_quantity |-> F("int", [default |-> 1]),
     weight_kg |-> F("Decimal", [max_digits |-> 8, decimal_places |-> 3]),
     dimensions |-> F("Dict[str, Any]", [default |-> {}]),
     images |-> F("List[str]", [default |-> <<>>]),
     specifications |-> F("Dict[str, Any]", [default |-> {}]),
     tags |-> F("List[str]", [default |-> <<>>])]

ProductUpdateSchema ==
    [name |-> F("Optional[str]", [default |-> None, max_length |-> 200]),
     description |-> F("Optional[str]", [default |-> None,
                                         max_length |-> 2000]),
     price |-> F("Optional[Decimal]", [default |-> None, max_digits |-> 12,
                                       decimal_places |-> 2]),
     original_price |-> F("Optional[Decimal]", [default |-> None,
                              max_digits |-> 12, decimal_places |-> 2]),
     stock_quantity |-> F("Optional[int]", [default |-> None]),
     weight_kg |-> F("Optional[Decimal]", [default |-> None, max_digits |-> 8,
                                           decimal_places |-> 3]),
     dimensions |-> F("Optional[Dict[str, Any]]", [default |-> None]),
     images |-> F("Optional[List[str]]", [default |-> None]),
     specifications |-> F("Optional[Dict[str, Any]]", [default |-> None]),
     tags |-> F("Optional[List[str]]", [default |-> None]),
     is_active |-> F("Optional[bool]", [default |-> None])]

CartItemCreateSchema ==
    [product_id |-> F("int", NoOpts),
     quantity |-> F("int", [default |-> 1, ge |-> 1])]

CartItemUpdateSchema ==
    [quantity |-> F("int", [ge |-> 1])]

OrderCreateSchema ==
    [shipping_address_id |-> F("int", NoOpts),
     payment_method |-> F("str", [max_length |-> 50]),
     notes |-> F("Optional[str]", [default |-> None, max_length |-> 500])]

DeliveryCreateSchema ==
    [courier_name |-> F("str", [max_length |-> 100]),
     pickup_address |-> F("str", [max_length |-> 500]),
     delivery_address |-> F("str", [max_length |-> 500]),
     delivery_fee |-> F("Decimal", [max_digits |-> 10, decimal_places |-> 2]),
     insurance_fee |-> F("Decimal", [default |-> DecZero2, max_digits |-> 10,
                                     decimal_places |-> 2]),
     delivery_notes |-> F("Optional[str]", [default |-> None,
                                            max_length |-> 500])]

ProductReviewCreateSchema ==
    [rating |-> F("int", [ge |-> 1, le |-> 5]),
     title |-> F("Optional[str]", [default |-> None, max_length |-> 200]),
     comment |-> F("Optional[str]", [default |-> None, max_length |-> 1000]),
     images |-> F("List[str]", [default |-> <<>>])]

----------------------------------------------------------------------------
(* The tables.  Each table=True class names its table; a table is the set of
   its rows, a row the record of the instance's fields. *)

Table(name) ==
    CASE name = "users"           -> users
      [] name = "addresses"       -> addresses
      [] name = "seller_profiles" -> seller_profiles
      [] name = "categories"      -> categories
      [] name = "products"        -> products
      [] name = "cart_items"      -> cart_items
      [] name = "orders"          -> orders
      [] name = "order_items"     -> order_items
      [] name = "deliveries"      -> deliveries
      [] name = "product_reviews" -> product_reviews

TableSchema(name) ==
    CASE name = "users"           -> UserSchema
      [] name = "addresses"       -> AddressSchema
      [] name = "seller_profiles" -> SellerProfileSchema
      [] name = "categories"      -> CategorySchema
      [] name = "products"        -> ProductSchema
      [] name = "cart_items"      -> CartItemSchema
      [] name = "orders"          -> OrderSchema
      [] name = "order_items"     -> OrderItemSchema
      [] name = "deliveries"      -> DeliverySchema
      [] name = "product_reviews" -> ProductReviewSchema

SetTable(name, rows) ==
    /\ users'           = IF name = "users" THEN rows ELSE users
    /\ addresses'       = IF name = "addresses" THEN rows ELSE addresses
    /\ seller_profiles' = IF name = "seller_profiles" THEN rows
                          ELSE seller_profiles
    /\ categories'      = IF name = "categories" THEN rows ELSE categories
    /\ products'        = IF name = "products" THEN rows ELSE products
    /\ cart_items'      = IF name = "cart_items" THEN rows ELSE cart_items
    /\ orders'          = IF name = "orders" THEN rows ELSE orders
    /\ order_items'     = IF name = "order_items" THEN rows ELSE order_items
    /\ deliveries'      = IF name = "deliveries" THEN rows ELSE deliveries
    /\ product_reviews' = IF name = "product_reviews" THEN rows
                          ELSE product_reviews

(* primary_key=True on id: Optional[int] = None: the table gives the row the
   next identity when it is inserted.  Rows are never deleted. *)
NextId(rows) == Cardinality(rows) + 1

(* unique=True: no other row of the table holds the same value. *)
UniqueErrs(name, row) ==
    LET schema == TableSchema(name)
    IN  {Err(f, "unique") :
            f \in {g \in DOMAIN schema :
                     /\ Has(schema[g], "unique")
                     /\ \E r \in Table(name) : r.id # row.id /\ r[g] = row[g]}}

(* foreign_key="<table>.id": the value, unless None, is the id of a row of
   that table. *)
ForeignKeyErrs(name, row) ==
    LET schema == TableSchema(name)
        ref(g) == IF IsOptional(schema[g].type) THEN row[g] ELSE Some(row[g])
    IN  {Err(f, "foreign_key") :
            f \in {g \in DOMAIN schema :
                     /\ Has(schema[g], "foreign_key")
                     /\ ~IsNone(ref(g))
                     /\ ~\E r \in Table(schema[g].opts.foreign_key) :
                            r.id = ref(g)}}

IntegrityErrs(name, row) == UniqueErrs(name, row) \cup ForeignKeyErrs(name, row)

Merge(a, b) ==
    [f \in DOMAIN a \cup DOMAIN b |-> IF f \in DOMAIN b THEN b[f] ELSE a[f]]

(* A request: the shape it is made through, the inbound data, and the
   fields the caller supplies beside it. *)
Request(shape, kw, supplied) ==
    [shape |-> shape, data |-> kw, supplied |-> supplied]

NoFields == [f \in {} |-> {}]

(* Construction of a table=True instance from keyword arguments and its
   insertion: a validation error or a broken constraint of the table
   refuses it and leaves every table as it was. *)
Persist(name, kw) ==
    LET schema == TableSchema(name)
        errs   == Validate(schema, kw)
        row    == [Construct(schema, kw) EXCEPT
                     !.id = Some(NextId(Table(name)))]
        broken == IntegrityErrs(name, row)
    IN  IF errs # {}
        THEN outcome' = Rejected(errs) /\ UNCHANGED tables
        ELSE IF broken # {}
        THEN outcome' = Rejected(broken) /\ UNCHANGED tables
        ELSE outcome' = Ok /\ SetTable(name, Table(name) \cup {row})

(* The handling of a create request: the shape validates the inbound data;
   the instance's fields, with the fields the caller supplies (references,
   password hash, order number, amounts), then build the persistent
   entity. *)
Handle(createSchema, kw, name, supplied) ==
    LET errs == Validate(createSchema, kw)
    IN  IF errs # {}
        THEN outcome' = Rejected(errs) /\ UNCHANGED tables
        ELSE Persist(name, Merge(Construct(createSchema, kw), supplied))

(* A create request given as keyword arguments. *)
Create(shape, createSchema, kw, name, supplied) ==
    /\ req' = Request(shape, kw, supplied)
    /\ Handle(createSchema, kw, name, supplied)

(* Decimal fields given as text are read as Decimal(text). *)
Coerce(schema, raw) ==
    [f \in DOMAIN raw |->
        IF f \in DOMAIN schema /\ schema[f].type = "Decimal"
        THEN DecimalFromStr(raw[f])
        ELSE IF f \in DOMAIN schema /\ schema[f].type = "Optional[Decimal]"
                /\ ~IsNone(raw[f])
        THEN Some(DecimalFromStr(raw[f][1]))
        ELSE raw[f]]

(* A create request given as a payload whose decimals are text. *)
CreateFromPayload(shape, createSchema, raw, name, supplied) ==
    /\ req' = Request(shape, raw, supplied)
    /\ Handle(createSchema, Coerce(createSchema, raw), name, supplied)

(* Direct construction of the persistent entity. *)
Direct(name, kw) ==
    /\ req' = Request(name, kw, NoFields)
    /\ Persist(name, kw)

(* Assignment of the given fields to the row with identity id: the changed
   row is validated against its class and the table's constraints. *)
Assign(name, id, changes) ==
    LET schema == TableSchema(name)
        old    == CHOOSE r \in Table(name) : r.id = Some(id)
        new    == Merge(old, changes)
        errs   == Validate(schema, new)
        broken == IntegrityErrs(name, new)
    IN  IF errs # {}
        THEN outcome' = Rejected(errs) /\ UNCHANGED tables
        ELSE IF broken # {}
        THEN outcome' = Rejected(broken) /\ UNCHANGED tables
        ELSE outcome' = Ok /\ SetTable(name, (Table(name) \ {old}) \cup {new})

(* The fields an Update shape sets on a row of table name: those given and
   not None, each as the row's field holds it. *)
Changes(updateSchema, kw, name) ==
    LET inst == Construct(updateSchema, kw)
        set  == {f \in DOMAIN inst :
                   IsOptional(updateSchema[f].type) => ~IsNone(inst[f])}
    IN  [f \in set |->
            IF IsOptional(updateSchema[f].type)
               /\ ~IsOptional(TableSchema(name)[f].type)
            THEN inst[f][1] ELSE inst[f]]

(* An update request handled through a transient shape. *)
Update(shape, updateSchema, kw, name, id) ==
    LET errs == Validate(updateSchema, kw)
    IN  /\ \E r \in Table(name) : r.id = Some(id)
        /\ req' = [shape |-> shape, data |-> kw, id |-> id]
        /\ IF errs # {}
           THEN outcome' = Rejected(errs) /\ UNCHANGED tables
           ELSE Assign(name, id, Changes(updateSchema, kw, name))

(* Direct assignment to fields of a stored row. *)
DirectAssign(name, id, changes) ==
    /\ \E r \in Table(name) : r.id = Some(id)
    /\ req' = [shape |-> name, data |-> changes, id |-> id]
    /\ Assign(name, id, changes)

----------------------------------------------------------------------------
(* Inputs *)

MaxUsers == 2

MaxEmailLen == 5

Seqs(S, n) == UNION {[1..k -> S] : k \in 0..n}

NotAnEmail == <<"n","o","t","-","a","n","-","e","m","a","i","l">>

ABCo == <<"a","@","b",".","c","o">>

OtherEmail == <<"c","@","d",".","e">>

FancyEmail ==
    <<"A","_","9","+","x",".","y","-","z","@","B","-","1",".","C","o",
      ".","-","u","k">>

ValidEmails == {ABCo, FancyEmail, Rep("a", 249) \o ABCo}

InvalidEmails ==
    {NotAnEmail, <<>>, <<"a","@","b">>, <<"@","b",".","c">>,
     <<"a","@",".","c">>, <<"a","@","b","_","c",".","d">>,
     <<"a","@","b",".","c","+","d">>, <<"a"," ","@","b",".","c">>,
     Rep("a", 250) \o ABCo}

CuratedEmails == ValidEmails \cup InvalidEmails

ShortEmails == Seqs({"a", "@", "."}, MaxEmailLen)

Passwords == {Rep("p", 7), Rep("p", 8), Rep("p", 100), Rep("p", 101)}

FullNames == {<<"A","n","n">>, Rep("n", 100), Rep("n", 101)}

Phones == {None, Some(Rep("0", 20)), Some(Rep("0", 21))}

Roles == UserRole \cup {"guest"}

Hashes == {Rep("h", 60), Rep("h", 256)}

(* UserCreate keyword arguments: every curated email with one valid rest. *)
UserCreateByEmail(emails) ==
    {[email |-> e, password |-> Rep("p", 8), full_name |-> <<"A","n","n">>] :
        e \in emails}

(* User keyword arguments *)
UserByEmail(emails) ==
    {[email |-> e, password_hash |-> h, full_name |-> <<"A","n","n">>] :
        e \in emails, h \in Hashes}

UserUpdateInputs ==
    {[full_name |-> Some(<<"B","o">>)], [full_name |-> Some(Rep("n", 101))],
     [phone |-> Some(Rep("0", 20))], [phone |-> Some(Rep("0", 21))],
     [full_name |-> None, phone |-> None]}

----------------------------------------------------------------------------
(* Requests on users *)

CreateUser(kw, hash) ==
    /\ Cardinality(users) < MaxUsers
    /\ Create("UserCreate", UserCreateSchema, kw, "users",
              [password_hash |-> hash])

DirectUser(kw) ==
    /\ Cardinality(users) < MaxUsers
    /\ Direct("users", kw)

UpdateUser(id, kw) == Update("UserUpdate", UserUpdateSchema, kw, "users", id)

AssignUserEmail(id, e) == DirectAssign("users", id, [email |-> e])

EmptyTables ==
    /\ users = {} /\ addresses = {} /\ seller_profiles = {}
    /\ categories = {} /\ products = {} /\ cart_items = {} /\ orders = {}
    /\ order_items = {} /\ deliveries = {} /\ product_reviews = {}

InitUser == EmptyTables /\ req = NoInput /\ outcome = Idle

NextUser ==
    \/ \E kw \in UserCreateByEmail(CuratedEmails) :
          CreateUser(kw, Rep("h", 60))
    \/ \E kw \in UserByEmail(CuratedEmails) : DirectUser(kw)
    \/ \E id \in 1..MaxUsers, kw \in UserUpdateInputs : UpdateUser(id, kw)
    \/ \E id \in 1..MaxUsers, e \in CuratedEmails : AssignUserEmail(id, e)

SpecUser == InitUser /\ [][NextUser]_vars

(* The pattern as the set of texts it denotes: a nonempty run of local
   characters, an @, a nonempty run of domain characters, a dot, and a
   nonempty run of characters of the last part. *)
MatchesEmailPattern(s) ==
    \E i \in {k \in 1..Len(s) : s[k] = "@"} :
        \E j \in {k \in 1..Len(s) : s[k] = "."} :
            /\ 1 < i /\ i + 1 < j /\ j < Len(s)
            /\ \A k \in 1..(i - 1) : s[k] \in LocalChars
            /\ \A k \in (i + 1)..(j - 1) : s[k] \in DomainChars
            /\ \A k \in (j + 1)..Len(s) : s[k] \in TldChars

(* C1: every attempt to construct a User or a UserCreate (or to assign a
   User's email) with an email that does not match the pattern ends in a
   validation error on the email, and no stored User has an email that
   fails the pattern. *)
C1_InvalidEmailRejected ==
    /\ \A u \in users : MatchesEmailPattern(u.email)
    /\ (/\ req.shape \in {"UserCreate", "users"}
        /\ "email" \in DOMAIN req.data
        /\ ~MatchesEmailPattern(req.data.email))
       => (/\ outcome.status = "error"
           /\ \E e \in outcome.errors : e.field = "email")

C1_Witness ==
    /\ req.shape = "users"
    /\ "email" \in DOMAIN req.data
    /\ req.data.email = NotAnEmail
    /\ outcome.status = "error"
    /\ \E u \in users : u.email = ABCo

----------------------------------------------------------------------------
(* UserCreate as a function of its keyword arguments *)

UserCreateInputs ==
    UserCreateByEmail(CuratedEmails \cup ShortEmails)
    \cup {[email |-> e, password |-> pw, full_name |-> n, phone |-> ph,
           role |-> r] :
            e \in {OtherEmail, NotAnEmail}, pw \in Passwords, n \in FullNames,
            ph \in Phones, r \in Roles}
    \cup {[email |-> OtherEmail, password |-> pw, full_name |-> n,
           role |-> r] :
            pw \in Passwords, n \in FullNames, r \in Roles}
    \cup {[email |-> OtherEmail, password |-> pw, full_name |-> n,
           phone |-> ph] :
            pw \in Passwords, n \in FullNames, ph \in Phones}

(* Instantiation of a table=False class from the pending keyword
   arguments: the instance, or the validation errors. *)
Instantiate(shape, schema) ==
    /\ req.shape = shape
    /\ outcome = Idle
    /\ outcome' = IF Validate(schema, req.data) = {}
                  THEN [status |-> "ok", errors |-> {},
                        value |-> Construct(schema, req.data)]
                  ELSE Rejected(Validate(schema, req.data))
    /\ UNCHANGED <<tables, req>>

InitUserCreate ==
    /\ EmptyTables
    /\ req \in {Request("UserCreate", kw, NoFields) : kw \in UserCreateInputs}
    /\ outcome = Idle

NextUserCreate == Instantiate("UserCreate", UserCreateSchema)

SpecUserCreate == InitUserCreate /\ [][NextUserCreate]_vars

(* C10: UserCreate accepts its input exactly when the email matches the
   pattern and has at most 255 characters, the password has 8 to 100
   characters, full_name has at most 100, phone is absent, None or of at most
   20 characters, and role is omitted or one of buyer, seller, admin; an
   omitted role is buyer. *)
C10_UserCreateAccepts ==
    (req.shape = "UserCreate" /\ outcome.status # "idle") =>
        LET kw == req.data
        IN  /\ outcome.status = "ok" <=>
                 /\ MatchesEmailPattern(kw.email) /\ Len(kw.email) <= 255
                 /\ 8 <= Len(kw.password) /\ Len(kw.password) <= 100
                 /\ Len(kw.full_name) <= 100
                 /\ "phone" \in DOMAIN kw =>
                       (kw.phone = <<>> \/ Len(kw.phone[1]) <= 20)
                 /\ "role" \in DOMAIN kw =>
                       kw.role \in {"buyer", "seller", "admin"}
            /\ (outcome.status = "ok" /\ "role" \notin DOMAIN kw) =>
                   outcome.value.role = "buyer"
            /\ outcome.status = "ok" =>
                   \A f \in DOMAIN kw : outcome.value[f] = kw[f]

C10_Witness ==
    /\ req.shape = "UserCreate"
    /\ req.data.email = ABCo
    /\ Len(req.data.password) = 8
    /\ "role" \notin DOMAIN req.data
    /\ outcome.status = "ok"
    /\ outcome.value.role = "buyer"

----------------------------------------------------------------------------
(* Products created from payloads *)

MaxWholeDigits == 12

Ann == <<"A","n","n">>

Row(name, id, kw) ==
    [Construct(TableSchema(name), kw) EXCEPT !.id = Some(id)]

BaseUser ==
    Row("users", 1, [email |-> ABCo, password_hash |-> Rep("h", 60),
                     full_name |-> Ann])

BaseCategory == Row("categories", 1, [name |-> <<"T","o","y","s">>])

Wholes ==
    {<<"0">>} \cup {Rep("9", n) : n \in 1..MaxWholeDigits}
    \cup {<<"1">> \o Rep("9", n - 1) : n \in 1..MaxWholeDigits}

Fractions ==
    {<<>>, <<".","9">>, <<".","9","9">>, <<".","9","9","9">>,
     <<".","9","0">>, <<".","0","5">>, <<".","0","0">>}

PriceTexts ==
    {sign \o whole \o frac :
        sign \in {<<>>, <<"-">>}, whole \in Wholes, frac \in Fractions}

Price99 == <<"9","9",".","9","9">>

PriceTooLong ==
    <<"1","9","9","9","9","9","9","9","9","9","9",".","9","9">>

ProductPayloads ==
    {[category_id |-> 1, name |-> <<"c","a","r">>, description |-> <<"r","e","d">>,
      price |-> t, weight_kg |-> <<"1",".","5","0","0">>] : t \in PriceTexts}
    \cup {[category_id |-> 1, name |-> <<"c","a","r">>,
           description |-> <<"r","e","d">>, price |-> Price99,
           original_price |-> Some(t), weight_kg |-> w] :
            t \in {Price99, PriceTooLong},
            w \in {<<"1",".","5","0","0">>, <<"1",".","5","0","0","0">>}}

(* The pending payload is handled once. *)
CreateProduct(raw, seller) ==
    /\ req = Request("ProductCreate", raw, [seller_id |-> seller])
    /\ outcome = Idle
    /\ CreateFromPayload("ProductCreate", ProductCreateSchema, raw, "products",
                         [seller_id |-> seller])

InitProduct ==
    /\ users = {BaseUser} /\ categories = {BaseCategory}
    /\ addresses = {} /\ seller_profiles = {} /\ products = {}
    /\ cart_items = {} /\ orders = {} /\ order_items = {} /\ deliveries = {}
    /\ product_reviews = {}
    /\ req \in {Request("ProductCreate", raw, [seller_id |-> 1]) :
                  raw \in ProductPayloads}
    /\ outcome = Idle

NextProduct == \E raw \in ProductPayloads : CreateProduct(raw, 1)

SpecProduct == InitProduct /\ [][NextProduct]_vars

(* The digits of a decimal text from its first nonzero digit on, and its
   digits after the point. *)
SignificantDigits(t) ==
    Cardinality({i \in 1..Len(t) :
                   /\ t[i] \in Digit
                   /\ \E j \in 1..i : t[j] \in Digit \ {"0"}})

DecimalPlaces(t) ==
    Cardinality({i \in 1..Len(t) :
                   t[i] \in Digit /\ \E j \in 1..i : t[j] = "."})

(* C5: a product price is accepted only if it has at most 12 significant
   digits and at most 2 after the point; an accepted price is held with the
   digits and the scale of the text given, so that it prints as that text;
   "19999999999.99" is refused and "99.99" is accepted. *)
C5_PriceExact ==
    (req.shape = "ProductCreate" /\ outcome.status # "idle") =>
        LET t == req.data.price
        IN  /\ outcome.status = "ok" =>
                 /\ SignificantDigits(t) <= 12
                 /\ DecimalPlaces(t) <= 2
                 /\ \E p \in products :
                       /\ p.id = Some(Cardinality(products))
                       /\ DecimalToStr(p.price) = t
                       /\ p.price.exp = -DecimalPlaces(t)
            /\ t = PriceTooLong => outcome.status = "error"
            /\ (t = Price99 /\ "original_price" \notin DOMAIN req.data)
                  => outcome.status = "ok"

C5_Witness ==
    /\ req.shape = "ProductCreate"
    /\ req.data.price = Price99
    /\ outcome.status = "ok"
    /\ \E p \in products : DecimalToStr(p.price) = Price99

C5_WitnessRefused ==
    /\ req.shape = "ProductCreate"
    /\ req.data.price = PriceTooLong
    /\ outcome = Rejected({Err("price", "max_digits")})

----------------------------------------------------------------------------
(* Deliveries *)

MaxOrders == 2

BaseAddress ==
    Row("addresses", 1,
        [user_id |-> 1, label |-> <<"H","o","m","e">>,
         full_address |-> <<"1"," ","A","v","e">>, city |-> <<"B","d","g">>,
         state |-> <<"J","B">>, postal_code |-> <<"4","0","1">>])

OrderNumber(i) == <<"O","R","D","-">> \o Rep("1", i)

Amount(n) == Dec(0, Rep(9, n), -2)

BaseOrder(i) ==
    Row("orders", i,
        [user_id |-> 1, shipping_address_id |-> 1,
         order_number |-> OrderNumber(i), subtotal |-> Amount(4),
         total_amount |-> Amount(4), payment_method |-> <<"c","o","d">>])

Courier == <<"J","N","E">>

DeliveryCreateInputs ==
    {[courier_name |-> Courier, pickup_address |-> <<"A">>,
      delivery_address |-> <<"B">>, delivery_fee |-> Amount(3)],
     [courier_name |-> Courier, pickup_address |-> <<"A">>,
      delivery_address |-> <<"B">>, delivery_fee |-> Amount(10),
      insurance_fee |-> Amount(2), delivery_notes |-> Some(<<"x">>)],
     [courier_name |-> Courier, pickup_address |-> <<"A">>,
      delivery_address |-> <<"B">>, delivery_fee |-> Amount(11)],
     [courier_name |-> Rep("c", 101), pickup_address |-> <<"A">>,
      delivery_address |-> <<"B">>, delivery_fee |-> Amount(3)],
     [courier_name |-> Courier, pickup_address |-> <<"A">>,
      delivery_address |-> Rep("d", 501), delivery_fee |-> Amount(3),
      delivery_notes |-> None]}

OrderIds == 1..(MaxOrders + 1)

CreateDelivery(order, kw) ==
    Create("DeliveryCreate", DeliveryCreateSchema, kw, "deliveries",
           [order_id |-> order])

DirectDelivery(kw) == Direct("deliveries", kw)

AssignDeliveryOrder(id, order) ==
    DirectAssign("deliveries", id, [order_id |-> order])

AssignDeliveryStatus(id, status) ==
    DirectAssign("deliveries", id, [status |-> status])

InitDelivery ==
    /\ users = {BaseUser} /\ addresses = {BaseAddress}
    /\ orders = {BaseOrder(i) : i \in 1..MaxOrders}
    /\ categories = {} /\ seller_profiles = {} /\ products = {}
    /\ cart_items = {} /\ order_items = {} /\ deliveries = {}
    /\ product_reviews = {}
    /\ req = NoInput /\ outcome = Idle

NextDelivery ==
    \/ \E o \in OrderIds, kw \in DeliveryCreateInputs : CreateDelivery(o, kw)
    \/ \E o \in OrderIds, kw \in DeliveryCreateInputs :
          DirectDelivery(Merge(kw, [order_id |-> o]))
    \/ \E id \in 1..MaxOrders, o \in OrderIds : AssignDeliveryOrder(id, o)
    \/ \E id \in 1..MaxOrders, st \in {"in_transit", "lost"} :
          AssignDeliveryStatus(id, st)

SpecDelivery == InitDelivery /\ [][NextDelivery]_vars

(* C4: no two Delivery rows have the same order_id, so each Order has at
   most one Delivery; a request to create a Delivery for an Order that has
   one is refused and leaves the deliveries as they were. *)
C4_DeliveryOrderUnique ==
    /\ [](\A d1, d2 \in deliveries : d1.order_id = d2.order_id => d1 = d2)
    /\ [](\A o \in orders :
            Cardinality({d \in deliveries : Some(d.order_id) = o.id}) <= 1)
    /\ [][(/\ req'.shape = "DeliveryCreate"
           /\ \E d \in deliveries : d.order_id = req'.supplied.order_id)
          => (outcome'.status = "error" /\ deliveries' = deliveries)]_vars

C4_Witness ==
    /\ req.shape = "DeliveryCreate"
    /\ req.supplied.order_id = 1
    /\ outcome = Rejected({Err("order_id", "unique")})
    /\ Cardinality(deliveries) = 2

----------------------------------------------------------------------------
(* Rows under a unique column: users, categories, orders, seller profiles *)

CategoryNames == {<<"T","o","y","s">>, <<"B","o","o","k","s">>}

OrderCreateInputs ==
    {[shipping_address_id |-> 1, payment_method |-> <<"c","o","d">>],
     [shipping_address_id |-> 1, payment_method |-> Rep("m", 51),
      notes |-> Some(<<"x">>)]}

SellerProfileCreateInputs ==
    {[store_name |-> <<"S","h","o","p">>],
     [store_name |-> Rep("s", 201), store_description |-> None]}

DirectCategory(kw) == Direct("categories", kw)

AssignCategoryName(id, n) == DirectAssign("categories", id, [name |-> n])

PlaceOrder(kw, user, number) ==
    Create("OrderCreate", OrderCreateSchema, kw, "orders",
           [user_id |-> user, order_number |-> number,
            subtotal |-> Amount(4), total_amount |-> Amount(4)])

AssignOrderNumber(id, number) ==
    DirectAssign("orders", id, [order_number |-> number])

CreateSellerProfile(kw, user) ==
    Create("SellerProfileCreate", SellerProfileCreateSchema, kw,
           "seller_profiles", [user_id |-> user])

AssignSellerUser(id, user) ==
    DirectAssign("seller_profiles", id, [user_id |-> user])

InitUnique ==
    /\ users = {BaseUser} /\ addresses = {BaseAddress}
    /\ categories = {} /\ orders = {} /\ seller_profiles = {}
    /\ products = {} /\ cart_items = {} /\ order_items = {}
    /\ deliveries = {} /\ product_reviews = {}
    /\ req = NoInput /\ outcome = Idle

NextUnique ==
    \/ \E kw \in UserCreateByEmail({ABCo, OtherEmail, NotAnEmail}) :
          CreateUser(kw, Rep("h", 60))
    \/ \E id \in 1..2, e \in {ABCo, OtherEmail} : AssignUserEmail(id, e)
    \/ \E n \in CategoryNames : DirectCategory([name |-> n])
    \/ \E id \in 1..2, n \in CategoryNames : AssignCategoryName(id, n)
    \/ \E kw \in OrderCreateInputs, i \in 1..2 :
          PlaceOrder(kw, 1, OrderNumber(i))
    \/ \E id \in 1..2, i \in 1..2 : AssignOrderNumber(id, OrderNumber(i))
    \/ \E kw \in SellerProfileCreateInputs, u \in 1..2 :
          CreateSellerProfile(kw, u)
    \/ \E id \in 1..2, u \in 1..2 : AssignSellerUser(id, u)

SpecUnique == InitUnique /\ [][NextUnique]_vars

UniqueIn(rows, f) == \A r1, r2 \in rows : r1[f] = r2[f] => r1 = r2

(* C8: in every state no two users share an email, no two categories a
   name, no two orders an order_number and no two seller profiles a
   user_id; a create request that would break one of these is refused and
   writes nothing. *)
C8_UniqueConstraints ==
    /\ [](/\ UniqueIn(users, "email")
          /\ UniqueIn(categories, "name")
          /\ UniqueIn(orders, "order_number")
          /\ UniqueIn(seller_profiles, "user_id"))
    /\ [][(\/ /\ req'.shape = "UserCreate"
              /\ \E u \in users : u.email = req'.data.email
           \/ /\ req'.shape = "categories" /\ "id" \notin DOMAIN req'
              /\ \E c \in categories : c.name = req'.data.name
           \/ /\ req'.shape = "OrderCreate"
              /\ \E o \in orders :
                    o.order_number = req'.supplied.order_number
           \/ /\ req'.shape = "SellerProfileCreate"
              /\ \E p \in seller_profiles :
                    p.user_id = req'.supplied.user_id)
          => (outcome'.status = "error" /\ UNCHANGED tables)]_vars

C8_Witness ==
    /\ Cardinality(users) = 2 /\ Cardinality(categories) = 2
    /\ Cardinality(orders) = 2 /\ Cardinality(seller_profiles) = 2
    /\ req.shape = "seller_profiles"
    /\ outcome = Rejected({Err("user_id", "unique")})

----------------------------------------------------------------------------
(* Cart items *)

MaxCartItems == 2

BaseProduct ==
    Row("products", 1,
        [seller_id |-> 1, category_id |-> 1, name |-> <<"c","a","r">>,
         description |-> <<"r","e","d">>, price |-> Amount(4),
         weight_kg |-> Dec(0, <<1, 5, 0, 0>>, -3)])

Quantities == {-1, 0, 1, 2}

CartItemCreateInputs ==
    {[product_id |-> pr, quantity |-> q] : pr \in {1, 2}, q \in Quantities}
    \cup {[product_id |-> 1]}

AddToCart(kw, user) ==
    /\ Cardinality(cart_items) < MaxCartItems
    /\ Create("CartItemCreate", CartItemCreateSchema, kw, "cart_items",
              [user_id |-> user])

DirectCartItem(kw) ==
    /\ Cardinality(cart_items) < MaxCartItems
    /\ Direct("cart_items", kw)

UpdateCartItem(id, kw) ==
    Update("CartItemUpdate", CartItemUpdateSchema, kw, "cart_items", id)

AssignCartQuantity(id, q) == DirectAssign("cart_items", id, [quantity |-> q])

InitCart ==
    /\ users = {BaseUser} /\ categories = {BaseCategory}
    /\ products = {BaseProduct}
    /\ addresses = {} /\ seller_profiles = {} /\ cart_items = {}
    /\ orders = {} /\ order_items = {} /\ deliveries = {}
    /\ product_reviews = {}
    /\ req = NoInput /\ outcome = Idle

NextCart ==
    \/ \E kw \in CartItemCreateInputs : AddToCart(kw, 1)
    \/ \E q \in Quantities :
          DirectCartItem([user_id |-> 1, product_id |-> 1, quantity |-> q])
    \/ \E id \in 1..MaxCartItems, q \in Quantities :
          UpdateCartItem(id, [quantity |-> q])
    \/ \E id \in 1..MaxCartItems, q \in Quantities : AssignCartQuantity(id, q)

SpecCart == InitCart /\ [][NextCart]_vars

(* C3: every stored CartItem has quantity >= 1, and every attempt to
   construct a CartItem, a CartItemCreate or a CartItemUpdate with a
   quantity below 1 is refused. *)
C3_QuantityAtLeastOne ==
    /\ \A c \in cart_items : c.quantity >= 1
    /\ (/\ req.shape \in {"CartItemCreate", "CartItemUpdate", "cart_items"}
        /\ "quantity" \in DOMAIN req.data
        /\ req.data.quantity < 1)
       => outcome.status = "error"

----------------------------------------------------------------------------
(* Ratings: product reviews and seller profiles *)

MaxReviews == 2

ReviewRatings == {0, 1, 3, 5, 6}

SellerRatings ==
    {DecZero1, Dec(0, <<4, 5>>, -1), Dec(0, <<5, 0, 0>>, -2),
     Dec(0, <<5, 0, 1>>, -2), Dec(0, <<9, 9, 9>>, -2),
     Dec(1, <<1, 0, 0>>, -2), Dec(0, <<1, 0, 0>>, -1),
     Dec(0, <<4, 9, 9, 9>>, -3)}

ProductReviewCreateInputs ==
    {[rating |-> r] : r \in ReviewRatings}
    \cup {[rating |-> 4, title |-> Some(Rep("t", 201))],
          [rating |-> 4, title |-> Some(<<"o","k">>),
           comment |-> Some(<<"f","i","n","e">>), images |-> <<<<"u">>>>]}

CreateReview(kw, product, user) ==
    /\ Cardinality(product_reviews) < MaxReviews
    /\ Create("ProductReviewCreate", ProductReviewCreateSchema, kw,
              "product_reviews", [product_id |-> product, user_id |-> user])

DirectReview(kw) ==
    /\ Cardinality(product_reviews) < MaxReviews
    /\ Direct("product_reviews", kw)

DirectSellerProfile(kw) == Direct("seller_profiles", kw)

AssignSellerRating(id, rating) ==
    DirectAssign("seller_profiles", id, [rating |-> rating])

InitRating ==
    /\ users = {BaseUser} /\ categories = {BaseCategory}
    /\ products = {BaseProduct}
    /\ addresses = {} /\ seller_profiles = {} /\ cart_items = {}
    /\ orders = {} /\ order_items = {} /\ deliveries = {}
    /\ product_reviews = {}
    /\ req = NoInput /\ outcome = Idle

NextRating ==
    \/ \E kw \in ProductReviewCreateInputs : CreateReview(kw, 1, 1)
    \/ \E r \in ReviewRatings :
          DirectReview([product_id |-> 1, user_id |-> 1, rating |-> r])
    \/ \E kw \in SellerProfileCreateInputs : CreateSellerProfile(kw, 1)
    \/ \E r \in SellerRatings :
          DirectSellerProfile([user_id |-> 1, store_name |-> <<"S">>,
                               rating |-> r])
    \/ \E r \in SellerRatings : AssignSellerRating(1, r)

SpecRating == InitRating /\ [][NextRating]_vars

(* The value of a decimal of at most three places, in thousandths. *)
RECURSIVE Unscaled(_)
Unscaled(ds) ==
    IF Len(ds) = 0 THEN 0
    ELSE 10 * Unscaled(SubSeq(ds, 1, Len(ds) - 1)) + ds[Len(ds)]

Thousandths(d) ==
    LET mag == CASE d.exp = 0  -> 1000 * Unscaled(d.digits)
                 [] d.exp = -1 -> 100 * Unscaled(d.digits)
                 [] d.exp = -2 -> 10 * Unscaled(d.digits)
                 [] d.exp = -3 -> Unscaled(d.digits)
    IN  IF d.sign = 1 THEN -mag ELSE mag

(* C2: every stored review rating is in [1,5] and every stored seller
   rating is in [0,5]. *)
C2_RatingsInRange ==
    /\ \A r \in product_reviews : 1 <= r.rating /\ r.rating <= 5
    /\ \A p \in seller_profiles :
          0 <= Thousandths(p.rating) /\ Thousandths(p.rating) <= 5000

----------------------------------------------------------------------------
(* One request against a populated store *)

BaseCartItem == Row("cart_items", 1, [user_id |-> 1, product_id |-> 1])

BaseDelivery ==
    Row("deliveries", 1,
        [order_id |-> 1, courier_name |-> Courier, pickup_address |-> <<"A">>,
         delivery_address |-> <<"B">>, delivery_fee |-> Amount(3)])

AddressCreateInputs ==
    {[label |-> <<"H","o","m","e">>, full_address |-> <<"1"," ","A","v","e">>,
      city |-> <<"B","d","g">>, state |-> <<"J","B">>,
      postal_code |-> <<"4","0","1">>],
     [label |-> <<"W","o","r","k">>, full_address |-> <<"2"," ","A","v","e">>,
      city |-> <<"B","d","g">>, state |-> <<"J","B">>,
      postal_code |-> <<"4","0","1">>, country |-> <<"S","G">>,
      is_default |-> TRUE],
     [label |-> Rep("l", 51), full_address |-> <<"1"," ","A","v","e">>,
      city |-> <<"B","d","g">>, state |-> <<"J","B">>,
      postal_code |-> Rep("4", 21)]}

ProductUpdateInputs ==
    {[name |-> Some(<<"v","a","n">>)], [name |-> Some(Rep("n", 201))],
     [price |-> Some(Amount(5)), is_active |-> Some(FALSE)],
     [price |-> Some(Amount(13))],
     [original_price |-> Some(Amount(6)), stock_quantity |-> Some(7),
      tags |-> Some(<<<<"n","e","w">>>>)],
     [name |-> None, description |-> None]}

CreateShapes ==
    {"UserCreate", "AddressCreate", "SellerProfileCreate", "ProductCreate",
     "CartItemCreate", "OrderCreate", "DeliveryCreate", "ProductReviewCreate"}

UpdateShapes == {"UserUpdate", "ProductUpdate", "CartItemUpdate"}

ShapeSchema(shape) ==
    CASE shape = "UserCreate"          -> UserCreateSchema
      [] shape = "UserUpdate"          -> UserUpdateSchema
      [] shape = "AddressCreate"       -> AddressCreateSchema
      [] shape = "SellerProfileCreate" -> SellerProfileCreateSchema
      [] shape = "ProductCreate"       -> ProductCreateSchema
      [] shape = "ProductUpdate"       -> ProductUpdateSchema
      [] shape = "CartItemCreate"      -> CartItemCreateSchema
      [] shape = "CartItemUpdate"      -> CartItemUpdateSchema
      [] shape = "OrderCreate"         -> OrderCreateSchema
      [] shape = "DeliveryCreate"      -> DeliveryCreateSchema
      [] shape = "ProductReviewCreate" -> ProductReviewCreateSchema

(* The persistent counterpart of each transient shape *)
ShapeTable(shape) ==
    CASE shape \in {"UserCreate", "UserUpdate"}         -> "users"
      [] shape = "AddressCreate"                        -> "addresses"
      [] shape = "SellerProfileCreate"                  -> "seller_profiles"
      [] shape \in {"ProductCreate", "ProductUpdate"}   -> "products"
      [] shape \in {"CartItemCreate", "CartItemUpdate"} -> "cart_items"
      [] shape = "OrderCreate"                          -> "orders"
      [] shape = "DeliveryCreate"                       -> "deliveries"
      [] shape = "ProductReviewCreate"                  -> "product_reviews"

Requests ==
    {Request("UserCreate", kw, [password_hash |-> Rep("h", 60)]) :
        kw \in UserCreateInputs}
    \cup {Request("AddressCreate", kw, [user_id |-> 1]) :
            kw \in AddressCreateInputs}
    \cup {Request("SellerProfileCreate", kw, [user_id |-> u]) :
            kw \in SellerProfileCreateInputs, u \in {1, 2}}
    \cup {Request("ProductCreate", raw, [seller_id |-> 1]) :
            raw \in ProductPayloads}
    \cup {Request("CartItemCreate", kw, [user_id |-> 1]) :
            kw \in CartItemCreateInputs}
    \cup {Request("OrderCreate", kw,
                  [user_id |-> 1, order_number |-> OrderNumber(i),
                   subtotal |-> Amount(4), total_amount |-> Amount(4)]) :
            kw \in OrderCreateInputs, i \in OrderIds}
    \cup {Request("DeliveryCreate", kw, [order_id |-> o]) :
            kw \in DeliveryCreateInputs, o \in OrderIds}
    \cup {Request("ProductReviewCreate", kw, [product_id |-> 1, user_id |-> 1]) :
            kw \in ProductReviewCreateInputs}
    \cup {[shape |-> "UserUpdate", data |-> kw, id |-> 1] :
            kw \in UserUpdateInputs}
    \cup {[shape |-> "ProductUpdate", data |-> kw, id |-> 1] :
            kw \in ProductUpdateInputs}
    \cup {[shape |-> "CartItemUpdate", data |-> [quantity |-> q], id |-> 1] :
            q \in Quantities}

(* The pending create request is handled once. *)
ServeCreate(shape) ==
    /\ req.shape = shape
    /\ outcome = Idle
    /\ Handle(ShapeSchema(shape), req.data, ShapeTable(shape), req.supplied)
    /\ UNCHANGED req

ServePayload(shape) ==
    /\ req.shape = shape
    /\ outcome = Idle
    /\ Handle(ShapeSchema(shape), Coerce(ShapeSchema(shape), req.data),
              ShapeTable(shape), req.supplied)
    /\ UNCHANGED req

ServeUpdate(shape) ==
    /\ req.shape = shape
    /\ outcome = Idle
    /\ Update(shape, ShapeSchema(shape), req.data, ShapeTable(shape), req.id)

InitRequest ==
    /\ users = {BaseUser} /\ addresses = {BaseAddress}
    /\ categories = {BaseCategory} /\ products = {BaseProduct}
    /\ orders = {BaseOrder(i) : i \in 1..MaxOrders}
    /\ deliveries = {BaseDelivery} /\ cart_items = {BaseCartItem}
    /\ seller_profiles = {} /\ order_items = {} /\ product_reviews = {}
    /\ req \in Requests
    /\ outcome = Idle

NextRequest ==
    \/ ServeCreate("UserCreate")
    \/ ServeCreate("AddressCreate")
    \/ ServeCreate("SellerProfileCreate")
    \/ ServePayload("ProductCreate")
    \/ ServeCreate("CartItemCreate")
    \/ ServeCreate("OrderCreate")
    \/ ServeCreate("DeliveryCreate")
    \/ ServeCreate("ProductReviewCreate")
    \/ ServeUpdate("UserUpdate")
    \/ ServeUpdate("ProductUpdate")
    \/ ServeUpdate("CartItemUpdate")

SpecRequest == InitRequest /\ [][NextRequest]_vars

(* The row a successful create request added: the one with the newest
   identity of the shape's table. *)
NewRow ==
    LET rows == Table(ShapeTable(req.shape))
    IN  CHOOSE r \in rows : r.id = Some(Cardinality(rows))

(* What reading field f of a row gives back, in the form the request gave
   it: a decimal of a payload as its text. *)
ReadBack(row, f) ==
    LET fd == ShapeSchema(req.shape)[f]
    IN  IF req.shape = "ProductCreate" /\ fd.type = "Decimal"
        THEN DecimalToStr(row[f])
        ELSE IF req.shape = "ProductCreate" /\ fd.type = "Optional[Decimal]"
                /\ ~IsNone(row[f])
        THEN Some(DecimalToStr(row[f][1]))
        ELSE row[f]

(* The value the request supplied for field f: the one given, or the
   declared default of a field left out. *)
Supplied(f) ==
    IF f \in DOMAIN req.data THEN req.data[f]
    ELSE ShapeSchema(req.shape)[f].opts.default

RoundTripOn(fields) ==
    (req.shape \in CreateShapes /\ outcome.status = "ok") =>
        \A f \in fields :
            /\ f \in DOMAIN NewRow
            /\ ReadBack(NewRow, f) = Supplied(f)

(* C6 as stated: after a successful create request, every field of the
   Create shape reads back from the persistent entity with the value
   supplied. *)
C6_RoundTripAllFields == RoundTripOn(DOMAIN ShapeSchema(req.shape))

(* C6 amended: every field of the Create shape other than
   UserCreate.password reads back with the value supplied; the User built
   from a UserCreate has no password field and holds the password_hash the
   caller supplied. *)
C6_RoundTripDeclaredFields ==
    /\ RoundTripOn(DOMAIN ShapeSchema(req.shape)
                   \ (IF req.shape = "UserCreate" THEN {"password"} ELSE {}))
    /\ (req.shape = "UserCreate" /\ outcome.status = "ok") =>
          /\ "password" \notin DOMAIN NewRow
          /\ NewRow.password_hash = req.supplied.password_hash

C6_Witness ==
    /\ req.shape = "DeliveryCreate"
    /\ outcome.status = "ok"
    /\ "insurance_fee" \notin DOMAIN req.data
    /\ NewRow.insurance_fee = DecZero2
    /\ NewRow.order_id = 2
    /\ NewRow.courier_name = Courier

C6_WitnessUser ==
    /\ req.shape = "UserCreate"
    /\ outcome.status = "ok"
    /\ "phone" \in DOMAIN req.data /\ req.data.phone # None
    /\ NewRow.phone = req.data.phone
    /\ NewRow.id = Some(2)

(* Whether value given for a field declared fd breaks one of its length,
   range or pattern constraints. *)
BreaksConstraint(fd, given, c) ==
    LET present == IsOptional(fd.type) => given # <<>>
        v       == IF IsOptional(fd.type) THEN given[1] ELSE given
    IN  /\ present
        /\ Has(fd, c)
        /\ CASE c = "max_length" -> Len(v) > fd.opts.max_length
             [] c = "min_length" -> Len(v) < fd.opts.min_length
             [] c = "regex"      -> ~MatchesEmailPattern(v)
             [] c = "ge"         -> v < fd.opts.ge
             [] c = "le"         -> v > fd.opts.le
             [] OTHER            -> FALSE

CheckedKinds == {"max_length", "min_length", "regex", "ge", "le"}

(* Whether a field declared fd carries the constraint an error names. *)
Declares(fd, c) ==
    CASE c \in CheckedKinds \cup {"unique", "foreign_key"} -> Has(fd, c)
      [] c \in {"max_digits", "decimal_places", "whole_digits"} ->
            Has(fd, "max_digits")
      [] c = "enum"    -> IsEnum(Base(fd.type))
      [] c = "missing" -> Required(fd)
      [] OTHER         -> FALSE

(* Whether the request would repeat, in a unique column of its table, the
   value of a stored row: the email of a UserCreate, the order_number, the
   user_id or the order_id supplied with an OrderCreate, a
   SellerProfileCreate or a DeliveryCreate. *)
RepeatsUnique(r) ==
    \/ r.shape = "UserCreate" /\ \E u \in users : u.email = r.data.email
    \/ /\ r.shape = "OrderCreate"
       /\ \E o \in orders : o.order_number = r.supplied.order_number
    \/ /\ r.shape = "SellerProfileCreate"
       /\ \E p \in seller_profiles : p.user_id = r.supplied.user_id
    \/ /\ r.shape = "DeliveryCreate"
       /\ \E d \in deliveries : d.order_id = r.supplied.order_id

(* C7: a request whose input breaks a length, range, pattern or uniqueness
   constraint ends in an error; every error names a field and a constraint
   that field declares, and for the input's own constraints one the input
   breaks; a request that ends in an error changes no table. *)
C7_RejectedBeforeWrite ==
    /\ [](outcome.status # "idle" =>
            LET schema == ShapeSchema(req.shape)
                target == TableSchema(ShapeTable(req.shape))
            IN  /\ (\E f \in DOMAIN req.data \cap DOMAIN schema :
                       \E c \in CheckedKinds :
                          BreaksConstraint(schema[f], req.data[f], c))
                   => outcome.status = "error"
                /\ outcome.status = "error" =>
                      /\ outcome.errors # {}
                      /\ \A e \in outcome.errors :
                            \/ /\ e.field \in DOMAIN schema
                               /\ Declares(schema[e.field], e.constraint)
                               /\ e.constraint \in CheckedKinds =>
                                     BreaksConstraint(schema[e.field],
                                        req.data[e.field], e.constraint)
                            \/ /\ e.field \in DOMAIN target
                               /\ e.field \notin DOMAIN req.data
                               /\ Declares(target[e.field], e.constraint)
                            \/ /\ e.field \in DOMAIN target
                               /\ e.constraint \in {"unique", "foreign_key"}
                               /\ Declares(target[e.field], e.constraint))
    /\ [][/\ outcome'.status = "error" => UNCHANGED tables
          /\ RepeatsUnique(req') =>
                /\ outcome'.status = "error"
                /\ UNCHANGED tables]_vars

C7_Witness ==
    /\ req.shape = "UserCreate"
    /\ outcome = Rejected({Err("email", "unique")})
    /\ users = {BaseUser}

C7_WitnessLength ==
    /\ req.shape = "UserUpdate"
    /\ outcome = Rejected({Err("full_name", "max_length")})
    /\ users = {BaseUser}

SubsetOfCounterpart(shape, fields) ==
    \A f \in fields :
        /\ f \in DOMAIN TableSchema(ShapeTable(shape))
        /\ Base(ShapeSchema(shape)[f].type)
              = Base(TableSchema(ShapeTable(shape))[f].type)

(* C9 as stated: every field of the transient shape of a request is a field
   of its persistent counterpart, of the same type apart from
   optionality. *)
C9_FieldSubset ==
    SubsetOfCounterpart(req.shape, DOMAIN ShapeSchema(req.shape))

(* C9 amended: so it is for every field but UserCreate.password, which
   User does not declare: User declares password_hash, a str as well. *)
C9_FieldSubsetButPassword ==
    /\ SubsetOfCounterpart(req.shape,
          DOMAIN ShapeSchema(req.shape)
          \ (IF req.shape = "UserCreate" THEN {"password"} ELSE {}))
    /\ "password" \in DOMAIN UserCreateSchema
    /\ "password" \notin DOMAIN UserSchema
    /\ "password_hash" \in DOMAIN UserSchema
    /\ UserSchema.password_hash.type = UserCreateSchema.password.type

C9_Witness ==
    /\ req.shape = "ProductUpdate"
    /\ outcome.status = "ok"
    /\ "original_price" \in DOMAIN req.data
    /\ \E pr \in products :
          /\ pr.original_price = req.data.original_price
          /\ pr.stock_quantity = req.data.stock_quantity[1]

====
